---- MODULE Spec2Model ----
(***************************************************************************)
(* Block-structured extents of SolverUtils (BSMesh.H): the BSExtent<T>     *)
(* class, its derived size/stride fields, flat-index enumeration, overlap  *)
(* and neighbour discovery, and the structured-to-unstructured conversion. *)
(*                                                                         *)
(* An extent object is a record                                            *)
(*   b   the std::vector<std::vector<T>> base: one sequence per dimension, *)
(*       <<lo, hi>> when well formed (C++ index k is TLA+ index k+1)       *)
(*   nd  the private member _nd                                            *)
(*   N   the private member _N  (sizes)                                    *)
(*   Np  the private member _Np (strides)                                  *)
(* size_t values are kept as the signed representative of their residue:   *)
(* a value v <= 0 in N or Np stands for 0 or for the wrapped 2^w + v.      *)
(***************************************************************************)
EXTENDS Integers, Sequences, FiniteSets, TLC

VARIABLES
  self,            \* the extent the member functions are called on (*this)
  inextent,        \* the extent passed to Overlap / GetFlatIndices
  outextent,       \* the output extent of self.Overlap(inextent, .)
  revextent,       \* the output extent of inextent.Overlap(self, .)
  extent_pool,     \* FindSharedNodes: the pool
  slot,            \* the pool position (from 0) the caller took self from
  shared_extents,  \* FindSharedNodes: output
  neighbors,       \* FindSharedNodes: output
  indices,         \* GetFlatIndices: output
  lowerleft,       \* CreateUnstructuredMesh: the local reduced copy
  conn,            \* the calls made on the Connectivity sink, in order
  ei,              \* CreateUnstructuredMesh: the loop counter i
  meshN,           \* CreateUnstructuredMesh: what the run reads as _N[0.._N[2]]
  output,          \* Flatten: the caller's output vector
  nodenum,         \* NodeNum: its argument index and its locals i and l0
  indata,          \* the bound data last handed to a constructor or Init
  pc,              \* where the caller is
  status           \* how the last call ended

ovVars == <<outextent, revextent>>
poolVars == <<extent_pool, slot, shared_extents, neighbors>>
meshVars == <<lowerleft, conn, ei, meshN>>
vars == <<self, inextent, outextent, revextent, extent_pool, slot,
          shared_extents, neighbors, indices, lowerleft, conn, ei, meshN,
          output, nodenum, indata, pc, status>>

\* ------------------------------------------------------------------ bounds
\* Largest coordinate of the enumerated bound data (coordinates are 0..MaxCoord).
MaxCoord == 2
\* Largest dimension count of the enumerated extents of the overlap scenarios.
MaxDim == 2
\* Largest number of extents in a pool.
MaxPool == 3
\* Largest number of values in flat bound data and raw buffers.
MaxFlatLen == 4

Coords == 0 .. MaxCoord
Dims == 1 .. MaxDim

\* ----------------------------------------------------------------- helpers
\* std::max / std::min as used by Overlap.
Max(x, y) == IF x >= y THEN x ELSE y
Min(x, y) == IF x <= y THEN x ELSE y

\* ------------------------------------------------------------ construction
\* BSExtent(): every vector resized to 0, _nd = 0.
DefaultExtent == [b |-> <<>>, nd |-> 0, N |-> <<>>, Np |-> <<>>]

\* The loop of Sync computing _N[i] = hi - lo + 1.
SyncN(b) == [i \in 1 .. Len(b) |-> b[i][2] - b[i][1] + 1]

\* _Np[0] = 1; _Np[i] = _N[i-1] * _Np[i-1].
RECURSIVE SyncNp(_, _)
SyncNp(N, i) ==
  IF i = 1 THEN 1 ELSE N[i - 1] * SyncNp(N, i - 1)

\* Sync() on an extent with at least one dimension, each holding two bounds.
Sync(e) ==
  LET N == SyncN(e.b)
  IN  [b |-> e.b, nd |-> Len(e.b), N |-> N,
       Np |-> [i \in 1 .. Len(e.b) |-> SyncNp(N, i)]]

\* BSExtent(const std::vector<std::vector<T>> &): copies every inner vector
\* whole, then Sync().
NestedCtor(nested) == Sync([DefaultExtent EXCEPT !.b = nested])

\* What a read past the end of a vector may deliver as a bound.
GarbageValues == {0, MaxCoord}

\* What reading [0] and [1] of every inner vector delivers: the value held,
\* or garbage where the inner vector is shorter.
PairsRead(b) ==
  {[i \in 1 .. Len(b) |->
      << IF Len(b[i]) >= 1 THEN b[i][1] ELSE g[i][1],
         IF Len(b[i]) >= 2 THEN b[i][2] ELSE g[i][2] >>] :
     g \in [1 .. Len(b) -> GarbageValues \X GarbageValues]}

\* Sync() on any extent, with every outcome. Two steps are undefined
\* behaviour: reading (*this)[i][1] or [0] of an inner vector holding fewer
\* than two values (the size is then computed from whatever was read), and
\* `_Np[0] = 1` when there is no dimension (a write past the end of an empty
\* vector). Either crashes or goes on.
SyncOutcomes(e) ==
  LET short == {i \in 1 .. Len(e.b) : Len(e.b[i]) < 2}
      reads == PairsRead(e.b)
  IN  IF Len(e.b) = 0
        THEN {[status |-> "crash", ext |-> [e EXCEPT !.nd = 0, !.N = <<>>, !.Np = <<>>]],
              [status |-> "ok", ext |-> [e EXCEPT !.nd = 0, !.N = <<>>, !.Np = <<>>]]}
      ELSE IF short = {}
        THEN {[status |-> "ok", ext |-> Sync(e)]}
      ELSE {[status |-> "crash", ext |-> [e EXCEPT !.nd = Len(e.b)]]}
           \cup {[status |-> "ok",
                  ext |-> [Sync([e EXCEPT !.b = r]) EXCEPT !.b = e.b]] : r \in reads}

\* BSExtent(const std::vector<T> &inflatextent) and the body of Init after
\* destroy(): _nd = size / 2 (integer division), two values pushed per
\* dimension, before Sync().
FlatFill(flat) ==
  [DefaultExtent EXCEPT
     !.nd = Len(flat) \div 2,
     !.b = [i \in 1 .. Len(flat) \div 2 |-> <<flat[2 * i - 1], flat[2 * i]>>]]

FlatCtorOutcomes(flat) == SyncOutcomes(FlatFill(flat))

\* destroy(): everything resized to 0, _nd = 0.
destroy(e) == DefaultExtent

\* Init(inflatextent): destroy(), then as the flat constructor.
InitOutcomes(e, flat) == SyncOutcomes(FlatFill(flat))

NestedCtorOutcomes(nested) == SyncOutcomes([DefaultExtent EXCEPT !.b = nested])

\* BSExtent(const T *src, int nd), nd >= 0: reads src[0 .. 2 nd - 1] whatever
\* the buffer holds; past its end the values read are garbage (or the read
\* crashes).
RawCtorOutcomes(src, nd) ==
  LET fills == {f \in [1 .. 2 * nd -> Coords \cup GarbageValues] :
                  \A k \in 1 .. 2 * nd :
                    IF k <= Len(src) THEN f[k] = src[k] ELSE f[k] \in GarbageValues}
  IN  (IF Len(src) < 2 * nd
         THEN {[status |-> "crash", ext |-> DefaultExtent]} ELSE {})
      \cup UNION {SyncOutcomes(FlatFill(f)) : f \in fills}

\* ---------------------------------------------------------------- Flatten
\* The wrong order: upper bound pushed before the lower one.
Flatten_swapped(b) ==
  [k \in 1 .. 2 * Len(b) |-> b[(k + 1) \div 2][IF k % 2 = 1 THEN 2 ELSE 1]]

\* Flatten(output) on bounds b: output emptied, then (*bsi)[0] and (*bsi)[1]
\* pushed for every dimension, in order.
Flatten(b) ==
  [k \in 1 .. 2 * Len(b) |-> b[(k + 1) \div 2][IF k % 2 = 1 THEN 1 ELSE 2]]

\* Flatten with every outcome: reading [0] or [1] of an inner vector holding
\* fewer than two values is undefined (a crash, or whatever was read).
FlattenOutcomes(e) ==
  IF \A i \in 1 .. Len(e.b) : Len(e.b[i]) >= 2
    THEN {[status |-> "ok", out |-> Flatten(e.b)]}
    ELSE {[status |-> "crash", out |-> <<>>]}
         \cup {[status |-> "ok", out |-> Flatten(r)] : r \in PairsRead(e.b)}

\* ---------------------------------------------------------------- Overlap
\* The test of lines 148-151: one of this extent's two boundary points in
\* dimension j lies within the other extent's range.
InRange(this, other, j) ==
  \/ (this.b[j][1] >= other.b[j][1] /\ this.b[j][1] <= other.b[j][2])
  \/ (this.b[j][2] >= other.b[j][1] /\ this.b[j][2] <= other.b[j][2])

\* The loop of lines 147-153, which stops at the first dimension without a
\* match: the value of `match` after it, started at dimension j.
RECURSIVE MatchLoop(_, _, _)
MatchLoop(this, other, j) ==
  IF j > Len(this.b) THEN TRUE
  ELSE IF ~InRange(this, other, j) THEN FALSE
  ELSE MatchLoop(this, other, j + 1)

\* (a plausible slip: min and max exchanged)
OverlapPair_swapped(this, other, i) ==
  << Min(this.b[i][1], other.b[i][1]), Max(this.b[i][2], other.b[i][2]) >>

\* The bound pair written to outextent[i].
OverlapPair(this, other, i) ==
  << Max(this.b[i][1], other.b[i][1]), Min(this.b[i][2], other.b[i][2]) >>

\* this->Overlap(other, out) when other has at least ND() dimensions: out is
\* resized through the vector base only, its _nd, _N, _Np stay as they were.
Overlap(this, other, out) ==
  LET nd == Len(this.b)
  IN  IF MatchLoop(this, other, 1)
        THEN [out EXCEPT !.b = [i \in 1 .. nd |-> OverlapPair(this, other, i)]]
        ELSE [out EXCEPT !.b = <<>>]

\* Overlap indexes inextent[j] for every j < ND() of this extent. When
\* inextent has fewer dimensions and every dimension it has matches, the loop
\* goes on to read bound pairs past the end of inextent.
ReadsPastEnd(this, other) ==
  /\ Len(other.b) < Len(this.b)
  /\ \A j \in 1 .. Len(other.b) : InRange(this, other, j)

\* What a read past the end may deliver as a bound pair.
GarbagePairs == {<<lo, hi>> : lo \in {0, MaxCoord}, hi \in {0, MaxCoord}}

\* other, followed by n pairs that were never part of it.
RECURSIVE Padded(_, _)
Padded(b, n) ==
  IF n = 0 THEN {b} ELSE {Append(s, g) : s \in Padded(b, n - 1), g \in GarbagePairs}

\* Every outcome of this->Overlap(other, out): the status of the call and the
\* output extent. The out-of-bounds read is undefined behaviour: the call
\* crashes (after outextent.resize(0)) or goes on with whatever it read.
OverlapOutcomes(this, other, out) ==
  IF ReadsPastEnd(this, other)
    THEN {[status |-> "crash", out |-> [out EXCEPT !.b = <<>>]]}
         \cup {[status |-> "ok",
                out |-> Overlap(this, [other EXCEPT !.b = p], out)] :
               p \in Padded(other.b, Len(this.b) - Len(other.b))}
    ELSE {[status |-> "ok", out |-> Overlap(this, other, out)]}

\* --------------------------------------------------------- GetFlatIndices
\* The vector NP of GetFlatIndices: the strides of this extent computed from
\* its bounds (not from _Np), entry 0 then overwritten with 0 (line 140).
FlatNP(this) ==
  LET N == [nc \in 1 .. Len(this.b) |-> this.b[nc][2] - this.b[nc][1] + 1]
  IN  [nc \in 1 .. Len(this.b) |-> IF nc = 1 THEN 0 ELSE SyncNp(N, nc)]

\* (a plausible slip: the offset of a dimension weighted by the stale entry
\* NP[0] = 0 carried one place up, i.e. NP[dindex - 1] for NP[dindex])
LevelOffset_shifted(this, k, dd, NP) == (dd - this.b[k][1]) * NP[k - 1]

\* (another slip: the coordinate itself weighted, not its distance from this
\* extent's lower bound)
LevelOffset_absolute(this, k, dd, NP) == dd * NP[k]

\* Line 126: what coordinate dd of dimension k > 1 adds to the offset.
LevelOffset(this, k, dd, NP) == (dd - this.b[k][1]) * NP[k]

\* dir_loop(nd = k, indoff, ...): the indices pushed, in order, by the loop
\* over dd from `dd` to the end of inextent's range in dimension k (C++
\* dindex = k - 1), recursing into dimension k - 1 for every value.
RECURSIVE dir_loop(_, _, _, _, _, _)
dir_loop(this, k, dd, indoff, NP, extent) ==
  IF dd > extent.b[k][2] THEN <<>>
  ELSE (IF k = 1
          THEN << dd - this.b[1][1] + 1 + indoff >>
          ELSE dir_loop(this, k - 1, extent.b[k - 1][1],
                        indoff + LevelOffset(this, k, dd, NP), NP, extent))
       \o dir_loop(this, k, dd + 1, indoff, NP, extent)

\* this->GetFlatIndices(extent, indices) for an extent of at least one
\* dimension and an argument with at least as many: indices is emptied, then
\* filled by dir_loop(nd, 0, 0, ...).
GetFlatIndices(this, extent) ==
  LET nd == Len(this.b)
  IN  dir_loop(this, nd, extent.b[nd][1], 0, FlatNP(this), extent)

\* dir_loop indexes extent[dindex] from dindex = ND() - 1 of this extent down:
\* an argument with fewer dimensions is read past its end at once. Undefined
\* behaviour: a crash (indices already emptied), or the loops run over
\* whatever bounds were read.
\* With no dimension at all (ND() = 0) line 139 writes NP[0] of an empty
\* vector and dir_loop(0, ...) starts at dindex = -1, reading NP[-1] and
\* inextent[-1]: undefined as well. dindex is never 0 from there down, so
\* nothing is ever pushed: the call crashes, or returns with indices empty.
GetFlatIndicesOutcomes(this, extent) ==
  IF Len(this.b) = 0
    THEN {[status |-> "crash", indices |-> <<>>],
          [status |-> "ok", indices |-> <<>>]}
  ELSE IF Len(extent.b) < Len(this.b)
    THEN {[status |-> "crash", indices |-> <<>>]}
         \cup {[status |-> "ok",
                indices |-> GetFlatIndices(this, [extent EXCEPT !.b = p])] :
               p \in Padded(extent.b, Len(this.b) - Len(extent.b))}
    ELSE {[status |-> "ok", indices |-> GetFlatIndices(this, extent)]}

\* ---------------------------------------------------------------- NodeNum
\* size_t values are kept as signed representatives: v >= 0 stands for v, and
\* v < 0 for the wrapped value 2^64 + v (so -1 is the largest size_t).
\* (the comparison a signed counter would make)
SizeGE_signed(a, b) == a >= b

\* a >= b on size_t.
SizeGE(a, b) == IF (a < 0) = (b < 0) THEN a >= b ELSE a < 0

\* No call of NodeNum under way.
NoCall == [index |-> <<>>, i |-> 0, l0 |-> 0]

\* Line 185 for an i within the vectors (C++ index i is position i + 1).
NodeNumTerm(this, index, i) == (index[i + 1] - this.b[i + 1][1]) * this.Np[i + 1]

\* One pass of the for statement of lines 184-185 from the locals f: the test
\* `i >= 0`, then the body and i--. An i outside the vectors makes index[i],
\* (*this)[i] and _Np[i] reads past their ends, which is undefined: a crash,
\* or whatever was read is added. When the test fails the loop is left.
NodeNumPass(this, f) ==
  IF ~SizeGE(f.i, 0)
    THEN {[status |-> "ok", exit |-> TRUE, f |-> f]}
  ELSE IF f.i >= 0 /\ f.i < Len(this.b) /\ f.i < Len(f.index)
    THEN {[status |-> "ok", exit |-> FALSE,
           f |-> [f EXCEPT !.l0 = f.l0 + NodeNumTerm(this, f.index, f.i),
                           !.i = f.i - 1]]}
  ELSE {[status |-> "crash", exit |-> FALSE, f |-> f]}
       \cup {[status |-> "ok", exit |-> FALSE,
               f |-> [f EXCEPT !.l0 = f.l0 + g, !.i = f.i - 1]] :
             g \in GarbageValues}

\* ------------------------------------------------- CreateUnstructuredMesh
\* The dimension count CreateUnstructuredMesh asserts.
MeshDim == 3

\* `_N[i] > 1` on size_t: a wrapped size (kept as a negative representative)
\* compares greater than 1.
SizeGT1(n) == n > 1 \/ n < 0

\* Lines 193-200: the copy of *this with the upper bound of every dimension of
\* size > 1 decremented through the vector base; its _nd, _N, _Np are those
\* of the copy.
LowerLeft(this) ==
  [this EXCEPT !.b = [i \in 1 .. Len(this.b) |->
     IF i <= MeshDim /\ SizeGT1(this.N[i])
       THEN <<this.b[i][1], this.b[i][2] - 1>> ELSE this.b[i]]]

\* mesh_nd after the loop of lines 195-200.
MeshNd(this) == MeshDim - Cardinality({i \in 1 .. MeshDim : ~SizeGT1(this.N[i])})

\* (a plausible slip: the row offset always taken from the first dimension)
RowOffset_first(N) == N[1]

\* Line 204: offset.
RowOffset(N) == IF SizeGT1(N[1]) THEN N[1] ELSE N[2]

\* Line 205: planeoffset.
PlaneOffset(this) == IF MeshNd(this) = 2 THEN 0 ELSE RowOffset(this.N) * this.N[2]

\* Lines 208-218: the element built for the lower-left node index i.
Element(this, i) ==
  LET offset == RowOffset(this.N)
      planeoffset == PlaneOffset(this)
      quad == << i, i + 1, i + 1 + offset, i + offset >>
  IN  IF planeoffset > 0
        THEN quad \o << i + planeoffset, i + 1 + planeoffset,
                        i + planeoffset + offset + 1, i + planeoffset + offset >>
        ELSE quad

\* (a plausible slip: the loop bound one short, `i < number_of_elements - 1`)
MoreElements_short(i, n) == i + 1 < n

\* The loop test of line 207.
MoreElements(i, n) == i < n

\* CreateUnstructuredMesh as a whole on a validated extent: the elements
\* handed to AddElement, in order (lines 193-220).
MeshElements(this) ==
  LET ix == GetFlatIndices(this, LowerLeft(this))
      n == CHOOSE n \in 0 .. Len(ix) :
             ~MoreElements(n, Len(ix))
             /\ \A i \in 0 .. n - 1 : MoreElements(i, Len(ix))
  IN  [i \in 1 .. n |-> Element(this, ix[i])]

\* -------------------------------------------------------- FindSharedNodes
\* `*epi != *this`: operator!= of the std::vector base, which compares the
\* bound pairs and nothing else.
Differs(x, y) == x.b # y.b

\* The loop of lines 169-180 from pool position k (nindex = k - 1) on, with
\* the outputs as they stand: every pool extent that differs from this one is
\* overlapped into a fresh default-constructed extent, which is kept, with its
\* position, when it is not empty.
RECURSIVE PoolLoop(_, _, _, _, _)
PoolLoop(this, pool, k, shared, neigh) ==
  IF k > Len(pool) THEN [shared_extents |-> shared, neighbors |-> neigh]
  ELSE LET overlap == Overlap(this, pool[k], DefaultExtent)
       IN  IF Differs(pool[k], this) /\ overlap.b # <<>>
             THEN PoolLoop(this, pool, k + 1, Append(shared, overlap),
                           Append(neigh, k - 1))
             ELSE PoolLoop(this, pool, k + 1, shared, neigh)

\* this->FindSharedNodes(pool, shared, neigh) for a pool of extents with at
\* least as many dimensions as this one: shared_extents is emptied (line 166),
\* neighbors is appended to as it was passed in.
FindSharedNodes(this, pool, shared, neigh) == PoolLoop(this, pool, 1, <<>>, neigh)

\* ------------------------------------------------------------- input data
Pairs == {<<lo, hi>> : lo \in Coords, hi \in Coords}
ValidPairs == {p \in Pairs : p[1] <= p[2]}

RECURSIVE SeqsOf(_, _)
SeqsOf(S, n) ==
  IF n = 0 THEN {<<>>}
  ELSE {Append(s, x) : s \in SeqsOf(S, n - 1), x \in S}

ValidNested == UNION {SeqsOf(ValidPairs, d) : d \in Dims}

\* The extents of the worked examples of the overlap rules.
ExampleNested ==
  { << <<0, 5>>, <<0, 5>> >>, << <<5, 10>>, <<0, 5>> >>,
    << <<0, 3>>, <<0, 3>> >>, << <<4, 5>>, <<0, 3>> >> }

OverlapInputs == {NestedCtor(n) : n \in ValidNested \cup ExampleNested}

\* ------------------------------------------------------- overlap scenarios
\* A caller builds two extents A (self) and B (inextent), calls
\* A.Overlap(B, outextent) and then B.Overlap(A, revextent), both outputs
\* default-constructed.
InitOverlap ==
  /\ self \in OverlapInputs
  /\ inextent \in OverlapInputs
  /\ outextent = DefaultExtent
  /\ revextent = DefaultExtent
  /\ extent_pool = <<>> /\ slot = 0 /\ shared_extents = <<>> /\ neighbors = <<>>
  /\ indices = <<>>
  /\ lowerleft = DefaultExtent /\ conn = <<>> /\ ei = 0 /\ meshN = <<>>
  /\ output = <<>>
  /\ nodenum = NoCall
  /\ indata = <<>>
  /\ pc = "start"
  /\ status = "ok"

CallOverlap ==
  /\ pc = "start"
  /\ \E r \in OverlapOutcomes(self, inextent, outextent) :
       /\ outextent' = r.out
       /\ status' = r.status
       /\ pc' = IF r.status = "ok" THEN "overlapped" ELSE "crashed"
  /\ UNCHANGED <<self, inextent, revextent, poolVars, indices, meshVars, output, nodenum, indata>>

CallOverlapReverse ==
  /\ pc = "overlapped"
  /\ \E r \in OverlapOutcomes(inextent, self, revextent) :
       /\ revextent' = r.out
       /\ status' = r.status
       /\ pc' = IF r.status = "ok" THEN "reversed" ELSE "crashed"
  /\ UNCHANGED <<self, inextent, outextent, poolVars, indices, meshVars, output, nodenum, indata>>

NextOverlap == CallOverlap \/ CallOverlapReverse

SpecOverlap == InitOverlap /\ [][NextOverlap]_vars

\* ---------------------------------------------------- flat-index scenarios
\* x lies within y in every dimension they share.
Within(x, y) ==
  \A d \in 1 .. Len(x.b) : y.b[d][1] <= x.b[d][1] /\ x.b[d][2] <= y.b[d][2]

FlatExtents == {NestedCtor(n) : n \in ValidNested}

\* A caller builds an extent (self), default-constructed or from bounds, and
\* a query extent (inextent) and calls self.GetFlatIndices(inextent, indices):
\* a query inside self, or one of another dimension count.
InitFlat ==
  /\ self \in FlatExtents \cup {DefaultExtent}
  /\ inextent \in {q \in FlatExtents \cup {DefaultExtent} :
                     Len(q.b) # Len(self.b) \/ Within(q, self)}
  /\ outextent = DefaultExtent
  /\ revextent = DefaultExtent
  /\ extent_pool = <<>> /\ slot = 0 /\ shared_extents = <<>> /\ neighbors = <<>>
  /\ indices \in {<<>>, <<7, 7>>}
  /\ lowerleft = DefaultExtent /\ conn = <<>> /\ ei = 0 /\ meshN = <<>>
  /\ output = <<>>
  /\ nodenum = NoCall
  /\ indata = <<>>
  /\ pc = "start"
  /\ status = "ok"

CallGetFlatIndices ==
  /\ pc = "start"
  /\ \E r \in GetFlatIndicesOutcomes(self, inextent) :
       /\ indices' = r.indices
       /\ status' = r.status
       /\ pc' = IF r.status = "ok" THEN "flattened" ELSE "crashed"
  /\ UNCHANGED <<self, inextent, ovVars, poolVars, meshVars, output, nodenum, indata>>

NextFlat == CallGetFlatIndices

SpecFlat == InitFlat /\ [][NextFlat]_vars

\* ------------------------------------------------------- mesh scenarios
MeshExtents ==
  {NestedCtor(n) : n \in SeqsOf(ValidPairs, MeshDim) \cup ValidNested}

\* A caller builds an extent, three-dimensional or not, and calls
\* CreateUnstructuredMesh(conn) on it with a fresh Connectivity.
InitMesh ==
  /\ self \in MeshExtents
  /\ inextent = DefaultExtent
  /\ outextent = DefaultExtent
  /\ revextent = DefaultExtent
  /\ extent_pool = <<>> /\ slot = 0 /\ shared_extents = <<>> /\ neighbors = <<>>
  /\ indices = <<>>
  /\ lowerleft = DefaultExtent /\ conn = <<>> /\ ei = 0 /\ meshN = <<>>
  /\ output = <<>>
  /\ nodenum = NoCall
  /\ indata = <<>>
  /\ pc = "start"
  /\ status = "ok"

\* What the two assertions of lines 192 and 201 require.
Validated(this) == this.nd = MeshDim /\ MeshNd(this) > 1

\* The sizes _N[0], _N[1], _N[2] as lines 196-205 read them: with fewer than
\* three dimensions the missing ones are read past the end of _N.
SizesRead(this) ==
  {[i \in 1 .. MeshDim |-> IF i <= Len(this.N) THEN this.N[i] ELSE g[i]] :
     g \in [1 .. MeshDim -> GarbageValues]}

\* This extent with the sizes the run reads.
MeshView(this, n) == [this EXCEPT !.N = n]

\* Lines 193-206 with the sizes n: lowerleft, then the flat indices of the
\* lower-left nodes.
MeshProceed(n) ==
  /\ meshN' = n
  /\ lowerleft' = LowerLeft(MeshView(self, n))
  /\ \E r \in GetFlatIndicesOutcomes(self, LowerLeft(MeshView(self, n))) :
       /\ indices' = r.indices
       /\ status' = r.status
       /\ pc' = IF r.status = "ok" THEN "adding" ELSE "crashed"

\* Lines 192-206. The two checks are assert()s: where assertions are compiled
\* in, a failed one aborts the program; compiled with NDEBUG they are no code
\* at all and the function goes on (with fewer than three dimensions reading
\* _N past its end, which is undefined: a crash, or whatever was read).
CreateBegin ==
  /\ pc = "start"
  /\ \/ /\ Validated(self)
        /\ MeshProceed(self.N)
     \/ /\ ~Validated(self)
        /\ pc' = "aborted"
        /\ status' = "abort"
        /\ UNCHANGED <<lowerleft, indices, meshN>>
     \/ /\ ~Validated(self)
        /\ \E n \in SizesRead(self) : MeshProceed(n)
     \/ /\ Len(self.N) < MeshDim
        /\ pc' = "crashed"
        /\ status' = "crash"
        /\ UNCHANGED <<lowerleft, indices, meshN>>
  /\ ei' = 0
  /\ UNCHANGED <<self, inextent, ovVars, poolVars, conn, output, nodenum, indata>>

\* One pass of the loop of lines 207-220: conn.AddElement(element).
AddElementStep ==
  /\ pc = "adding"
  /\ MoreElements(ei, Len(indices))
  /\ conn' = Append(conn, [call |-> "AddElement",
                            element |->
                              Element(MeshView(self, meshN), indices[ei + 1])])
  /\ ei' = ei + 1
  /\ UNCHANGED <<self, inextent, ovVars, poolVars, indices, lowerleft, meshN,
                 output, nodenum, indata, pc, status>>

\* Line 221, after the loop: conn.Sync().
SyncStep ==
  /\ pc = "adding"
  /\ ~MoreElements(ei, Len(indices))
  /\ conn' = Append(conn, [call |-> "Sync", element |-> <<>>])
  /\ pc' = "done"
  /\ UNCHANGED <<self, inextent, ovVars, poolVars, indices, lowerleft, ei,
                 meshN, output, nodenum, indata, status>>

NextMesh == CreateBegin \/ AddElementStep \/ SyncStep

SpecMesh == InitMesh /\ [][NextMesh]_vars

\* ------------------------------------------------ translation scenarios
\* Largest offset, in either direction, an extent is translated by.
MaxShift == 1

Shifts(D) == [1 .. D -> (0 - MaxShift) .. MaxShift]

\* The extent with bounds lo_d + t_d, hi_d + t_d, as the nested constructor
\* builds it.
Translate(e, t) ==
  NestedCtor([d \in 1 .. Len(e.b) |-> <<e.b[d][1] + t[d], e.b[d][2] + t[d]>>])

\* Queries of an extent: the extent itself, its lower-left nodes, its
\* upper corner node.
Queries(e) ==
  {e, NestedCtor(LowerLeft(e).b),
   NestedCtor([d \in 1 .. Len(e.b) |-> <<e.b[d][2], e.b[d][2]>>])}

\* A caller builds an extent and a query of it and either asks for the flat
\* indices of the query or creates the unstructured mesh.
InitTranslate ==
  /\ self \in MeshExtents
  /\ inextent \in Queries(self)
  /\ outextent = DefaultExtent
  /\ revextent = DefaultExtent
  /\ extent_pool = <<>> /\ slot = 0 /\ shared_extents = <<>> /\ neighbors = <<>>
  /\ indices = <<>>
  /\ lowerleft = DefaultExtent /\ conn = <<>> /\ ei = 0 /\ meshN = <<>>
  /\ output = <<>>
  /\ nodenum = NoCall
  /\ indata = <<>>
  /\ pc = "start"
  /\ status = "ok"

NextTranslate == NextFlat \/ NextMesh

SpecTranslate == InitTranslate /\ [][NextTranslate]_vars

\* ---------------------------------------------------- NodeNum scenarios
\* How many passes of NodeNum's loop with a wrapped counter are followed.
MaxSpin == 2

\* The coordinate tuples of the nodes of e.
Tuples(e) ==
  {q \in [1 .. Len(e.b) -> Coords] :
     \A d \in 1 .. Len(e.b) : e.b[d][1] <= q[d] /\ q[d] <= e.b[d][2]}

\* A caller builds an extent, default-constructed or from bounds, and calls
\* NodeNum with the coordinate tuple of one of its nodes.
InitNodeNum ==
  /\ self \in FlatExtents \cup {DefaultExtent}
  /\ nodenum \in {[index |-> q, i |-> 0, l0 |-> 0] : q \in Tuples(self)}
  /\ inextent = DefaultExtent
  /\ outextent = DefaultExtent
  /\ revextent = DefaultExtent
  /\ extent_pool = <<>> /\ slot = 0 /\ shared_extents = <<>> /\ neighbors = <<>>
  /\ indices = <<>>
  /\ lowerleft = DefaultExtent /\ conn = <<>> /\ ei = 0 /\ meshN = <<>>
  /\ output = <<>>
  /\ indata = <<>>
  /\ pc = "start"
  /\ status = "ok"

\* Lines 183-184: l0 = 1 and i = _nd - 1, computed on size_t.
NodeNumBegin ==
  /\ pc = "start"
  /\ nodenum' = [nodenum EXCEPT !.l0 = 1, !.i = self.nd - 1]
  /\ pc' = "looping"
  /\ UNCHANGED <<self, inextent, ovVars, poolVars, indices, meshVars, output,
                 indata, status>>

\* One pass of the loop; the function is left when the test fails.
NodeNumStep ==
  /\ pc = "looping"
  /\ nodenum.i >= 0 - MaxSpin
  /\ \E r \in NodeNumPass(self, nodenum) :
       /\ nodenum' = r.f
       /\ status' = r.status
       /\ pc' = IF r.status = "crash" THEN "crashed"
                ELSE IF r.exit THEN "returned" ELSE "looping"
  /\ UNCHANGED <<self, inextent, ovVars, poolVars, indices, meshVars, output,
                 indata>>

NextNodeNum == NodeNumBegin \/ NodeNumStep

SpecNodeNum == InitNodeNum /\ [][NextNodeNum]_vars

\* ------------------------------------------------------- pool scenarios
\* The extents of a pool share their dimension count: every one-dimensional
\* one over Coords, or the two-dimensional ones of the worked examples.
PoolExtents ==
  { {NestedCtor(n) : n \in SeqsOf(ValidPairs, 1)},
    {NestedCtor(n) : n \in ExampleNested} }
Pools(maxlen) == UNION {SeqsOf(E, n) : E \in PoolExtents, n \in 1 .. maxlen}

\* A caller holds a pool of subdomain extents, takes the extent at one
\* position as the querying extent and calls FindSharedNodes with fresh
\* output vectors.
InitPool ==
  /\ extent_pool \in Pools(MaxPool)
  /\ slot \in 0 .. Len(extent_pool) - 1
  /\ self = extent_pool[slot + 1]
  /\ inextent = DefaultExtent
  /\ outextent = DefaultExtent
  /\ revextent = DefaultExtent
  /\ shared_extents = <<>> /\ neighbors = <<>>
  /\ indices = <<>>
  /\ lowerleft = DefaultExtent /\ conn = <<>> /\ ei = 0 /\ meshN = <<>>
  /\ output = <<>>
  /\ nodenum = NoCall
  /\ indata = <<>>
  /\ pc = "start"
  /\ status = "ok"

CallFindSharedNodes ==
  /\ pc = "start"
  /\ LET r == FindSharedNodes(self, extent_pool, shared_extents, neighbors)
     IN  /\ shared_extents' = r.shared_extents
         /\ neighbors' = r.neighbors
  /\ pc' = "found"
  /\ UNCHANGED <<self, inextent, ovVars, extent_pool, slot, indices, meshVars,
                 output, nodenum, indata, status>>

\* The caller goes on to another pool position (or the same one) and calls
\* FindSharedNodes again with the same two output vectors.
CallFindSharedNodesAgain ==
  /\ pc = "found"
  /\ \E next \in 0 .. Len(extent_pool) - 1 :
       LET r == FindSharedNodes(extent_pool[next + 1], extent_pool,
                                shared_extents, neighbors)
       IN  /\ slot' = next
           /\ self' = extent_pool[next + 1]
           /\ shared_extents' = r.shared_extents
           /\ neighbors' = r.neighbors
  /\ pc' = "found_again"
  /\ UNCHANGED <<inextent, ovVars, extent_pool, indices, meshVars,
                 output, nodenum, indata, status>>

NextPool == CallFindSharedNodes \/ CallFindSharedNodesAgain

SpecPool == InitPool /\ [][NextPool]_vars

\* ------------------------------------------------ construction scenarios
\* Bound data as a caller may hand it over, well formed or not.
FlatData == UNION {SeqsOf(Coords, n) : n \in 0 .. MaxFlatLen}
InnerData == UNION {SeqsOf(Coords, n) : n \in {1, 2, 3}}
\* Nested data: well-formed pairs followed by one entry of any length.
NestedData ==
  UNION {{Append(v, x) : v \in SeqsOf(ValidPairs, d - 1), x \in InnerData} :
         d \in Dims}

Built(r, form, data, nd) ==
  /\ self' = r.ext
  /\ status' = r.status
  /\ pc' = IF r.status = "ok" THEN "constructed" ELSE "crashed"
  /\ indata' = [form |-> form, data |-> data, nd |-> nd]
  /\ UNCHANGED <<inextent, ovVars, poolVars, indices, meshVars, output, nodenum>>

InitCtor ==
  /\ self = DefaultExtent
  /\ inextent = DefaultExtent
  /\ outextent = DefaultExtent
  /\ revextent = DefaultExtent
  /\ extent_pool = <<>> /\ slot = 0 /\ shared_extents = <<>> /\ neighbors = <<>>
  /\ indices = <<>>
  /\ lowerleft = DefaultExtent /\ conn = <<>> /\ ei = 0 /\ meshN = <<>>
  /\ output \in {<<>>, <<7, 7, 7>>}
  /\ nodenum = NoCall
  /\ indata = [form |-> "default", data |-> <<>>, nd |-> 0]
  /\ pc = "start"
  /\ status = "ok"

ConstructNested ==
  /\ pc = "start"
  /\ \E nested \in NestedData : \E r \in NestedCtorOutcomes(nested) :
       Built(r, "nested", nested, Len(nested))

ConstructFlat ==
  /\ pc = "start"
  /\ \E flat \in FlatData : \E r \in FlatCtorOutcomes(flat) :
       Built(r, "flat", flat, Len(flat) \div 2)

ConstructRaw ==
  /\ pc = "start"
  /\ \E src \in FlatData : \E nd \in 0 .. MaxDim : \E r \in RawCtorOutcomes(src, nd) :
       Built(r, "raw", src, nd)

\* Init on a default-constructed or destroyed extent.
CallInit ==
  /\ pc \in {"start", "destroyed"}
  /\ \E flat \in FlatData : \E r \in InitOutcomes(self, flat) :
       Built(r, "init", flat, Len(flat) \div 2)

CallDestroy ==
  /\ pc = "constructed"
  /\ self' = destroy(self)
  /\ pc' = "destroyed"
  /\ indata' = [form |-> "default", data |-> <<>>, nd |-> 0]
  /\ UNCHANGED <<inextent, ovVars, poolVars, indices, meshVars, output, nodenum, status>>

\* Flatten(output) on the constructed extent; the output vector may hold
\* earlier content.
CallFlatten ==
  /\ pc = "constructed"
  /\ \E r \in FlattenOutcomes(self) :
       /\ output' = r.out
       /\ status' = r.status
       /\ pc' = IF r.status = "ok" THEN "flat_out" ELSE "crashed"
  /\ UNCHANGED <<self, inextent, ovVars, poolVars, indices, meshVars, nodenum,
                 indata>>

NextCtor ==
  \/ ConstructNested \/ ConstructFlat \/ ConstructRaw \/ CallInit \/ CallDestroy
  \/ CallFlatten

SpecCtor == InitCtor /\ [][NextCtor]_vars

\* ----------------------------------------------------- vocabulary of claims
\* Well-formed bound data: two bounds per dimension, lo <= hi.
ValidBounds(e) == \A d \in 1 .. Len(e.b) : Len(e.b[d]) = 2 /\ e.b[d][1] <= e.b[d][2]
SameDim(x, y) == Len(x.b) = Len(y.b)
\* Closed ranges that do not intersect in dimension d.
Apart(x, y, d) == x.b[d][2] < y.b[d][1] \/ y.b[d][2] < x.b[d][1]
NoRegion(e) == e.b = <<>>
\* Derived fields agree with the bounds.
Consistent(e) ==
  /\ e.nd = Len(e.b)
  /\ Len(e.N) = Len(e.b) /\ Len(e.Np) = Len(e.b)
  /\ \A d \in 1 .. Len(e.b) :
       /\ e.N[d] = e.b[d][2] - e.b[d][1] + 1
       /\ e.Np[d] = IF d = 1 THEN 1 ELSE e.N[d - 1] * e.Np[d - 1]

\* C1: for valid A, B of equal dimension, A.Overlap(B) produces no region iff
\* the ranges are apart in some dimension (so a range strictly containing the
\* other's still produces a region).
C1_NoRegionIffApart ==
  (pc \in {"overlapped", "reversed"} /\ SameDim(self, inextent)) =>
    (NoRegion(outextent) <=> \E d \in 1 .. Len(self.b) : Apart(self, inextent, d))

\* C2: A.Overlap(B) and B.Overlap(A) both produce no region or the same region.
C2_OverlapSymmetric ==
  (pc = "reversed" /\ SameDim(self, inextent)) => outextent.b = revextent.b

\* The index values lo..hi of dimension d.
Range(e, d) == e.b[d][1] .. e.b[d][2]

\* C3: a region produced by A.Overlap(B) for valid A, B of equal dimension D
\* has D bound pairs, each with lo <= hi and covering exactly the indices the
\* two ranges share (so it lies in both, with bounds [max lo, min hi]); ranges
\* touching at one index give a region one index wide: A=[[0,5],[0,5]],
\* B=[[5,10],[0,5]] gives [[5,5],[0,5]].
C3_RegionIsIntersection ==
  (pc \in {"overlapped", "reversed"} /\ SameDim(self, inextent)) =>
    /\ ~NoRegion(outextent) =>
         /\ Len(outextent.b) = Len(self.b)
         /\ \A d \in 1 .. Len(self.b) :
              /\ Len(outextent.b[d]) = 2
              /\ outextent.b[d][1] <= outextent.b[d][2]
              /\ Range(outextent, d) = Range(self, d) \cap Range(inextent, d)
    /\ \A d \in 1 .. Len(self.b) :
         (~NoRegion(outextent) /\ self.b[d][2] = inextent.b[d][1])
           => outextent.b[d] = <<self.b[d][2], self.b[d][2]>>
    /\ (self.b = << <<0, 5>>, <<0, 5>> >> /\ inextent.b = << <<5, 10>>, <<0, 5>> >>)
         => outextent.b = << <<5, 5>>, <<0, 5>> >>

C3_Witness ==
  /\ pc = "overlapped"
  /\ self.b = << <<0, 5>>, <<0, 5>> >> /\ inextent.b = << <<5, 10>>, <<0, 5>> >>
  /\ outextent.b = << <<5, 5>>, <<0, 5>> >>

\* C8: derived fields never disagree with bounds: every extent has stored
\* dimension count = number of bound pairs, size_d = hi_d - lo_d + 1,
\* stride_1 = 1 and stride_d = size_(d-1) * stride_(d-1).
C8_DerivedFieldsAgree ==
  /\ \A e \in {self, inextent, outextent, revextent, lowerleft} : Consistent(e)
  /\ \A k \in 1 .. Len(extent_pool) : Consistent(extent_pool[k])
  /\ \A k \in 1 .. Len(shared_extents) : Consistent(shared_extents[k])

\* C10: operands of different dimension counts make Overlap (and
\* GetFlatIndices) fail with a DimensionMismatch error, distinct from the
\* normal "no region" outcome.
C10_MismatchReported ==
  (pc # "start" /\ ~SameDim(self, inextent)) => status = "DimensionMismatch"

\* NodeCount: the product of the sizes hi - lo + 1.
RECURSIVE NodeCount(_, _)
NodeCount(e, d) ==
  IF d = 0 THEN 1 ELSE (e.b[d][2] - e.b[d][1] + 1) * NodeCount(e, d - 1)

\* The coordinate in dimension d of the k-th tuple (k from 1) of extent q,
\* counted with the first dimension varying fastest.
TupleCoord(q, k, d) ==
  q.b[d][1] + (((k - 1) \div NodeCount(q, d - 1)) % (q.b[d][2] - q.b[d][1] + 1))

\* 1 + sum over d of (c_d - lo_d) * stride_d, with the strides Sync stored.
RECURSIVE FlatNumber(_, _, _, _)
FlatNumber(e, q, k, d) ==
  IF d = 0 THEN 1
  ELSE (TupleCoord(q, k, d) - e.b[d][1]) * e.Np[d] + FlatNumber(e, q, k, d - 1)

\* C5: for a query of the same dimension D >= 1 contained in self,
\* GetFlatIndices returns NodeCount(query) indices, the k-th being the flat
\* number 1 + sum (c_d - self.lo_d) * stride_d(self) of the k-th coordinate
\* tuple counted first-dimension-fastest; the sequence is strictly increasing
\* and within [1, NodeCount(self)]; self = query = [[0,2],[0,1]] gives 1..6.
C5_FlatIndices ==
  (pc = "flattened" /\ Len(self.b) >= 1 /\ SameDim(self, inextent)
     /\ Within(inextent, self)) =>
    LET D == Len(self.b) IN
    /\ Len(indices) = NodeCount(inextent, D)
    /\ \A k \in 1 .. Len(indices) :
         /\ indices[k] = FlatNumber(self, inextent, k, D)
         /\ indices[k] >= 1 /\ indices[k] <= NodeCount(self, D)
         /\ k > 1 => indices[k - 1] < indices[k]
    /\ (self.b = << <<0, 2>>, <<0, 1>> >> /\ inextent.b = self.b)
         => indices = <<1, 2, 3, 4, 5, 6>>

C5_Witness ==
  /\ pc = "flattened"
  /\ self.b = << <<0, 2>>, <<0, 1>> >> /\ inextent.b = self.b
  /\ indices = <<1, 2, 3, 4, 5, 6>>

\* The dimensions of size > 1, and the cells: the extent with the upper bound
\* of every such dimension lowered by one.
Active(e) == {d \in 1 .. Len(e.b) : e.b[d][2] > e.b[d][1]}
Cells(e) ==
  [b |-> [d \in 1 .. Len(e.b) |->
            <<e.b[d][1], IF d \in Active(e) THEN e.b[d][2] - 1 ELSE e.b[d][2]>>]]
\* The flat number of the node reached from the lower-left node of the k-th
\* cell by one step in every dimension of the set `up`.
Corner(e, k, up) ==
  LET c == [d \in 1 .. Len(e.b) |->
              TupleCoord(Cells(e), k, d) + (IF d \in up THEN 1 ELSE 0)]
      RECURSIVE num(_)
      num(d) == IF d = 0 THEN 1 ELSE (c[d] - e.b[d][1]) * e.Np[d] + num(d - 1)
  IN  num(Len(e.b))
\* The corner nodes of the k-th cell: the quad in the two lowest active
\* dimensions p < q, then (three active dimensions) the same quad one step up
\* in the third.
CornerNodes(e, k) ==
  LET p == CHOOSE d \in Active(e) : \A x \in Active(e) : d <= x
      q == CHOOSE d \in Active(e) \ {p} : \A x \in Active(e) \ {p} : d <= x
      quad == << {}, {p}, {p, q}, {q} >>
      ups == IF Cardinality(Active(e)) = 2 THEN quad
             ELSE quad \o [j \in 1 .. 4 |-> quad[j] \cup (Active(e) \ {p, q})]
  IN  [j \in 1 .. Len(ups) |-> Corner(e, k, ups[j])]
AddedElements == SelectSeq(conn, LAMBDA c : c.call = "AddElement")

\* C6: for a D = 3 extent with at least two non-degenerate dimensions,
\* CreateUnstructuredMesh emits one element per cell in first-dimension-fastest
\* order of the lower-left nodes, of 4 nodes (two active dimensions) or 8
\* (three), of the form [i, i+1, i+1+rowStride, i+rowStride] (+ the same four
\* shifted by planeStride), which are the flat numbers of the cell's corner
\* nodes, all in [1, NodeCount]; the unit cell gives one 8-node element.
C6_OneElementPerCell ==
  (pc = "done" /\ Validated(self)) =>
    LET els == AddedElements
        rowStride == self.Np[CHOOSE q \in Active(self) :
                      Cardinality({x \in Active(self) : x < q}) = 1]
    IN
    /\ Len(els) = NodeCount(Cells(self), MeshDim)
    /\ \A k \in 1 .. Len(els) :
         LET el == els[k].element
             i == el[1] IN
         /\ Len(el) = IF Cardinality(Active(self)) = 2 THEN 4 ELSE 8
         /\ el = CornerNodes(self, k)
         /\ SubSeq(el, 1, 4) = << i, i + 1, i + 1 + rowStride, i + rowStride >>
         /\ Len(el) = 8 =>
              \A j \in 1 .. 4 : el[4 + j] = el[j] + self.Np[MeshDim]
         /\ \A j \in 1 .. Len(el) :
              el[j] >= 1 /\ el[j] <= NodeCount(self, MeshDim)
    /\ self.b = << <<0, 1>>, <<0, 1>>, <<0, 1>> >> =>
         (Len(els) = 1 /\ Len(els[1].element) = 8)

C6_Witness ==
  /\ pc = "done"
  /\ self.b = << <<0, 0>>, <<0, 2>>, <<0, 2>> >>
  /\ Len(AddedElements) = 4
  /\ AddedElements[4].element = <<5, 6, 9, 8>>

\* C7: in a run of CreateUnstructuredMesh that passes validation the calls on
\* the sink are AddElement calls followed by exactly one Sync: nothing follows
\* Sync, and Sync comes only after every element (one per cell) was added.
C7_AddsThenOneSync ==
  /\ \A k \in 1 .. Len(conn) : conn[k].call = "Sync" => (k = Len(conn) /\ pc = "done")
  /\ (pc = "done" /\ Validated(self)) =>
       /\ Len(conn) = NodeCount(Cells(self), MeshDim) + 1
       /\ conn[Len(conn)].call = "Sync"

C7_Witness ==
  /\ pc = "done"
  /\ Len(conn) = 5
  /\ \A k \in 1 .. 4 : conn[k].call = "AddElement"
  /\ conn[5].call = "Sync"

\* The pool positions (from 0) reported as neighbours.
Reported == {neighbors[k] : k \in 1 .. Len(neighbors)}
\* The pool positions other than the caller's whose extent Overlap gives a
\* region with.
OthersOverlapping ==
  {k \in 0 .. Len(extent_pool) - 1 :
     k # slot /\ ~NoRegion(Overlap(self, extent_pool[k + 1], DefaultExtent))}

\* C4: FindSharedNodes never reports the querying extent's own pool position,
\* reports as many neighbours as there are other positions with a non-empty
\* overlap, and reports an entry at another position even when its bounds are
\* identical to the query's.
C4_SelfExcludedByPosition ==
  pc = "found" =>
    /\ slot \notin Reported
    /\ Len(neighbors) = Cardinality(OthersOverlapping)
    /\ \A k \in 0 .. Len(extent_pool) - 1 :
         (k # slot /\ extent_pool[k + 1].b = self.b) => k \in Reported

\* Bound data a constructor must refuse: an odd number of flat values, a
\* dimension entry without exactly two bounds, or lo > hi in a dimension read.
Malformed(d) ==
  CASE d.form = "nested" ->
         \E i \in 1 .. Len(d.data) :
           Len(d.data[i]) # 2 \/ d.data[i][1] > d.data[i][2]
    [] d.form \in {"flat", "init"} ->
         \/ Len(d.data) % 2 = 1
         \/ \E i \in 1 .. Len(d.data) \div 2 : d.data[2 * i - 1] > d.data[2 * i]
    [] d.form = "raw" ->
         \E i \in 1 .. d.nd :
           2 * i <= Len(d.data) /\ d.data[2 * i - 1] > d.data[2 * i]
    [] OTHER -> FALSE

\* C9: constructing an extent from malformed bound data fails with an
\* InvalidDimension error reported to the caller; no extent with truncated
\* dimensions or a non-positive/wrapped size is produced silently.
C9_MalformedRejected ==
  (pc \in {"constructed", "crashed"} /\ Malformed(indata)) =>
    status = "InvalidDimension"
\* C11: a run of CreateUnstructuredMesh on an extent that fails validation
\* (its dimension count is not 3, or fewer than 2 of its dimensions have more
\* than one node) makes no call on the sink: no AddElement and no Sync.
C11_NoSinkCallWhenRejected == ~Validated(self) => conn = <<>>

C13_OutputsWellPaired ==
  pc \in {"found", "found_again"} =>
    /\ Len(neighbors) = Len(shared_extents)
    /\ \A k \in 1 .. Len(neighbors) :
         /\ neighbors[k] \in 0 .. Len(extent_pool) - 1
         /\ k <= Len(shared_extents) =>
              shared_extents[k] =
                Overlap(self, extent_pool[neighbors[k] + 1], DefaultExtent)
         /\ k > 1 => neighbors[k - 1] < neighbors[k]

\* C14: on an extent without dimensions GetFlatIndices touches no
\* per-dimension element (nothing at index 0 or -1 of an empty vector): the
\* call always returns, and returns the empty sequence.
C14_NoDimensionNoAccess ==
  (pc # "start" /\ self.nd = 0) => (status = "ok" /\ indices = <<>>)

\* C15: translation invariance. The elements CreateUnstructuredMesh emitted
\* for a validated three-dimensional extent are those it emits for the extent
\* translated by any offset vector t, and the flat indices of a query of the
\* extent's dimension count are those of the translated query in the
\* translated extent.
C15_TranslationInvariant ==
  /\ (pc = "done" /\ Validated(self)) =>
       \A t \in Shifts(MeshDim) :
         [k \in 1 .. Len(AddedElements) |-> AddedElements[k].element]
           = MeshElements(Translate(self, t))
  /\ (pc = "flattened" /\ Len(self.b) >= 1 /\ SameDim(self, inextent)) =>
       \A t \in Shifts(Len(self.b)) :
         indices = GetFlatIndices(Translate(self, t), Translate(inextent, t))

C15_Witness ==
  /\ pc = "done"
  /\ self.b = << <<1, 2>>, <<0, 2>>, <<2, 2>> >>
  /\ Len(AddedElements) = 2
  /\ AddedElements[2].element = <<3, 4, 6, 5>>
  /\ MeshElements(Translate(self, <<-1, 1, -1>>))[2] = <<3, 4, 6, 5>>

\* 1 + sum over d of (index_d - lo_d) * stride_d, with the strides Sync stored.
RECURSIVE TupleNumber(_, _, _)
TupleNumber(e, index, d) ==
  IF d = 0 THEN 1
  ELSE (index[d] - e.b[d][1]) * e.Np[d] + TupleNumber(e, index, d - 1)

\* C16: NodeNum's loop is never left through its test `i >= 0`: the counter is
\* unsigned, so the test holds in every pass, and after the pass for i = 0 the
\* counter holds the wrapped value and the loop goes on (or the reads past
\* the vectors crash); NodeNum never returns 1 + sum of
\* (index_d - lo_d) * stride_d, whatever the dimension count, though l0 holds
\* that number when the counter wraps.
C16_NodeNumNeverReturns ==
  /\ pc # "returned"
  /\ pc = "looping" => SizeGE(nodenum.i, 0)
  /\ (pc = "looping" /\ nodenum.i = 0 - 1) =>
       nodenum.l0 = TupleNumber(self, nodenum.index, Len(self.b))

C16_Witness ==
  /\ pc = "looping"
  /\ self.b = << <<0, 2>>, <<0, 1>> >>
  /\ nodenum.index = <<1, 1>>
  /\ nodenum.i = 0 - 2
  /\ nodenum.l0 \in {5, 5 + MaxCoord}

====
